---- MODULE Spec2Model ----
(***************************************************************************)
(* A model of go-marketo: the query builder (Query.Values and the form     *)
(* encoding used by LeadAPI.Filter), the OAuth token store and refresher   *)
(* of Client, the two request executors (doWithRetry, doRequest) and the   *)
(* error classification of the resource APIs.                              *)
(*                                                                         *)
(* Text is modelled as a sequence of one-character strings, so that        *)
(* joining, escaping and parsing are computed and not assumed.             *)
(***************************************************************************)
EXTENDS Integers, Sequences, FiniteSets, TLC

(***************************************************************************)
(* Bounds of the model.                                                    *)
(***************************************************************************)
\* longest list of filter values enumerated element by element
MaxValues == 2
\* how far past MaximumQueryBatchSize the long filter lists go
MaxOver == 1

(***************************************************************************)
(* Program constants.                                                      *)
(***************************************************************************)
MaximumQueryBatchSize == 300

NULL == [kind |-> "nil"]

(***************************************************************************)
(* Text helpers: strings.Join, strconv.Itoa.                               *)
(***************************************************************************)
RECURSIVE Flatten(_)
\* concatenation of a sequence of texts (halving keeps the recursion shallow)
Flatten(ss) ==
    IF Len(ss) = 0 THEN <<>>
    ELSE IF Len(ss) = 1 THEN ss[1]
    ELSE LET mid == Len(ss) \div 2
         IN  Flatten(SubSeq(ss, 1, mid)) \o Flatten(SubSeq(ss, mid + 1, Len(ss)))

\* strings.Join(elems, sep)
Join(elems, sep) ==
    Flatten([i \in 1..(2 * Len(elems) - 1) |->
                IF i % 2 = 1 THEN elems[(i + 1) \div 2] ELSE sep])

DigitChars == <<"0", "1", "2", "3", "4", "5", "6", "7", "8", "9">>

RECURSIVE UItoa(_)
UItoa(n) ==
    IF n < 10 THEN <<DigitChars[n + 1]>>
    ELSE UItoa(n \div 10) \o <<DigitChars[(n % 10) + 1]>>

\* strconv.Itoa(n)
Itoa(n) == IF n < 0 THEN <<"-">> \o UItoa(-n) ELSE UItoa(n)

(***************************************************************************)
(* net/url: QueryEscape, QueryUnescape, Values.Encode, ParseQuery, as      *)
(* used by LeadAPI.Filter (query.Encode()) and by the receiving end        *)
(* (Request.ParseForm).                                                    *)
(***************************************************************************)
\* the printable bytes the model uses, in byte order
AsciiOrder ==
    <<" ", "%", "&", "+", ",", "-", ".", "0", "1", "2", "3", "4", "5", "6",
      "7", "8", "9", ";", "=", "@", "A", "B", "C", "D", "E", "F", "P", "S",
      "T", "V", "_", "a", "b", "c", "d", "e", "f", "g", "h", "i", "k", "l",
      "m", "n", "o", "p", "r", "s", "t", "u", "x", "y", "z", "~">>

Ord(c) == CHOOSE i \in 1..Len(AsciiOrder) : AsciiOrder[i] = c

\* url.shouldEscape(c, encodeQueryComponent): letters, digits and -_.~ stay
Unreserved ==
    {"-", ".", "_", "~", "0", "1", "2", "3", "4", "5", "6", "7", "8", "9",
     "A", "B", "C", "D", "E", "F", "P", "S", "T", "V",
     "a", "b", "c", "d", "e", "f", "g", "h", "i", "k", "l", "m", "n", "o",
     "p", "r", "s", "t", "u", "x", "y", "z"}

shouldEscape(c) == c \notin Unreserved

\* the two upper-case hex digits of a byte that is escaped
HexOf(c) ==
    CASE c = "%" -> <<"2", "5">>
      [] c = "&" -> <<"2", "6">>
      [] c = "+" -> <<"2", "B">>
      [] c = "," -> <<"2", "C">>
      [] c = ";" -> <<"3", "B">>
      [] c = "=" -> <<"3", "D">>
      [] c = "@" -> <<"4", "0">>

Escapable == {"%", "&", "+", ",", ";", "=", "@"}

ishex(c) ==
    c \in {"0", "1", "2", "3", "4", "5", "6", "7", "8", "9",
           "A", "B", "C", "D", "E", "F", "a", "b", "c", "d", "e", "f"}

\* a bug: the byte is written as it is
escapeChar_raw(c) == <<c>>

escapeChar(c) ==
    IF c = " " THEN <<"+">>
    ELSE IF shouldEscape(c) THEN <<"%">> \o HexOf(c)
    ELSE <<c>>

\* url.QueryEscape(s)
QueryEscape(s) == Flatten([i \in 1..Len(s) |-> escapeChar(s[i])])

\* the byte written as %XY; a byte outside the model's alphabet is kept as "?"
unhexPair(x, y) ==
    IF \E c \in Escapable : HexOf(c) = <<x, y>>
    THEN CHOOSE c \in Escapable : HexOf(c) = <<x, y>>
    ELSE "?"

\* url.QueryUnescape(s): fails on a % not followed by two hex digits; + is a
\* space.  A valid % is never a hex digit, so position i is inside an escape
\* exactly when one of the two positions before it holds a %.
QueryUnescape(s) ==
    LET bad == \E i \in 1..Len(s) :
                 /\ s[i] = "%"
                 /\ ~(i + 2 <= Len(s) /\ ishex(s[i + 1]) /\ ishex(s[i + 2]))
        piece(i) ==
            IF s[i] = "%" THEN <<unhexPair(s[i + 1], s[i + 2])>>
            ELSE IF (i > 1 /\ s[i - 1] = "%") \/ (i > 2 /\ s[i - 2] = "%") THEN <<>>
            ELSE IF s[i] = "+" THEN <<" ">>
            ELSE <<s[i]>>
    IN  IF bad THEN [err |-> TRUE, s |-> <<>>]
        ELSE [err |-> FALSE, s |-> Flatten([i \in 1..Len(s) |-> piece(i)])]

\* byte-wise string comparison a < b
LexLess(a, b) ==
    \E i \in 1..(Len(a) + 1) :
        /\ \A j \in 1..(i - 1) : j <= Len(b) /\ a[j] = b[j]
        /\ \/ (i = Len(a) + 1 /\ Len(b) >= i)
           \/ (i <= Len(a) /\ i <= Len(b) /\ Ord(a[i]) < Ord(b[i]))

\* sort.Strings over the keys of a url.Values
SortedKeys(v) ==
    LET ks == DOMAIN v
    IN  [i \in 1..Cardinality(ks) |->
            CHOOSE k \in ks : Cardinality({o \in ks : LexLess(o, k)}) = i - 1]

\* url.Values is map[string][]string: a function from keys to lists of texts
EmptyValues == [k \in {} |-> <<>>]

\* url.Values.Set(key, value)
ValuesSet(v, key, value) ==
    [k \in (DOMAIN v) \cup {key} |-> IF k = key THEN <<value>> ELSE v[k]]

\* url.Values.Get(key): the first value, "" when the key is absent
ValuesGet(v, key) ==
    IF key \in DOMAIN v /\ Len(v[key]) > 0 THEN v[key][1] ELSE <<>>

\* url.Values.Encode(): key=value pairs, keys sorted, joined by &
Encode(v) ==
    LET keys == SortedKeys(v)
        pairs(k) == [i \in 1..Len(v[k]) |-> QueryEscape(k) \o <<"=">> \o QueryEscape(v[k][i])]
    IN  Join(Flatten([i \in 1..Len(keys) |-> pairs(keys[i])]), <<"&">>)

\* s split at every occurrence of the one-byte separator sep
SplitAt(s, sep) ==
    LET at == {i \in 1..Len(s) : s[i] = sep}
        nth(k) == IF k = 0 THEN 0
                  ELSE IF k > Cardinality(at) THEN Len(s) + 1
                  ELSE CHOOSE i \in at : Cardinality({j \in at : j < i}) = k - 1
    IN  [k \in 1..(Cardinality(at) + 1) |-> SubSeq(s, nth(k - 1) + 1, nth(k) - 1)]

\* strings.Cut(s, sep): the text before and after the first sep
Cut(s, sep) ==
    IF \E i \in 1..Len(s) : s[i] = sep
    THEN LET i == CHOOSE i \in 1..Len(s) : s[i] = sep /\ \A j \in 1..(i - 1) : s[j] # sep
         IN  [before |-> SubSeq(s, 1, i - 1), after |-> SubSeq(s, i + 1, Len(s))]
    ELSE [before |-> s, after |-> <<>>]

RECURSIVE parseSegments(_, _)
\* the loop of url.parseQuery over the &-separated segments
parseSegments(segs, m) ==
    IF Len(segs) = 0 THEN m
    ELSE LET seg  == Head(segs)
             kv   == Cut(seg, "=")
             key  == QueryUnescape(kv.before)
             val  == QueryUnescape(kv.after)
             skip == \/ seg = <<>>
                     \/ \E i \in 1..Len(seg) : seg[i] = ";"
                     \/ key.err
                     \/ val.err
             m2   == IF skip THEN m
                     ELSE [k \in (DOMAIN m) \cup {key.s} |->
                             IF k = key.s
                             THEN (IF k \in DOMAIN m THEN m[k] ELSE <<>>) \o <<val.s>>
                             ELSE m[k]]
         IN  parseSegments(Tail(segs), m2)

\* url.ParseQuery(query), which Request.ParseForm applies to a form body
ParseQuery(query) == parseSegments(SplitAt(query, "&"), EmptyValues)

(***************************************************************************)
(* Query and Query.Values.                                                 *)
(***************************************************************************)
filterTypeKey    == <<"f", "i", "l", "t", "e", "r", "T", "y", "p", "e">>
filterValuesKey  == <<"f", "i", "l", "t", "e", "r", "V", "a", "l", "u", "e", "s">>
fieldsKey        == <<"f", "i", "e", "l", "d", "s">>
batchSizeKey     == <<"b", "a", "t", "c", "h", "S", "i", "z", "e">>
nextPageTokenKey == <<"n", "e", "x", "t", "P", "a", "g", "e", "T", "o", "k", "e", "n">>

NoErr         == [kind |-> "nil"]
ErrTooFew     == [kind |-> "errorString", msg |-> "too few values"]
ErrTooMany    == [kind |-> "errorString", msg |-> "too many values"]

\* the Query left behind by Values(): a zero BatchSize becomes the maximum
QueryAfterValues(q) ==
    IF q.BatchSize = 0 THEN [q EXCEPT !.BatchSize = MaximumQueryBatchSize] ELSE q

\* a bug: an empty list of filter values is let through
TooFew_never(n) == FALSE

\* the lower bound on the number of filter values
TooFew(n) == n < 1

\* a bug: the maximum itself is refused
TooMany_offByOne(n) == n >= MaximumQueryBatchSize

\* the upper bound on the number of filter values
TooMany(n) == n > MaximumQueryBatchSize

\* the batchSize entry of the form
BatchSizeText(q) == Itoa(q.BatchSize)

\* whether the pagination token is forwarded
HasPage(q) == q.NextPageToken # <<>>

\* the filterValues entry of the form
FilterValuesText(q) == Join(q.FilterValues, <<",">>)

\* Query.Values(): [values, err]
Values(q0) ==
    LET q  == QueryAfterValues(q0)
        v1 == ValuesSet(EmptyValues, filterTypeKey, q.FilterField)
        v2 == ValuesSet(v1, filterValuesKey, FilterValuesText(q))
        v3 == IF Len(q.Fields) > 0
              THEN ValuesSet(v2, fieldsKey, Join(q.Fields, <<",">>))
              ELSE v2
        v4 == ValuesSet(v3, batchSizeKey, BatchSizeText(q))
        v5 == IF HasPage(q) THEN ValuesSet(v4, nextPageTokenKey, q.NextPageToken) ELSE v4
    IN  IF TooFew(Len(q.FilterValues)) THEN [values |-> EmptyValues, err |-> ErrTooFew]
        ELSE IF TooMany(Len(q.FilterValues)) THEN [values |-> EmptyValues, err |-> ErrTooMany]
        ELSE [values |-> v5, err |-> NoErr]

(***************************************************************************)
(* The queries the model builds.                                           *)
(***************************************************************************)
\* bytes of the sample texts: plain, digits and every separator of the wire
SampleTexts ==
    {<<"a">>, <<",">>, <<"&">>, <<"=">>, <<"%">>, <<"+">>, <<" ">>,
     <<"a", "@", "x">>, <<"%", "2", "C">>}

RECURSIVE ListsUpTo(_, _)
ListsUpTo(S, n) ==
    IF n = 0 THEN {<<>>}
    ELSE LET shorter == ListsUpTo(S, n - 1)
         IN  shorter \cup {Append(l, x) : l \in {s \in shorter : Len(s) = n - 1}, x \in S}

\* a long list of filter values: two texts in alternation
LongList(n) == [i \in 1..n |-> IF i % 2 = 1 THEN <<"a", "@", "x">> ELSE <<",">>]

FilterValueLists ==
    ListsUpTo(SampleTexts, MaxValues)
      \cup {LongList(n) : n \in (MaximumQueryBatchSize - 1)..(MaximumQueryBatchSize + MaxOver)}

FieldLists == {<<>>, <<<<"a">>>>, <<<<"a">>, <<"=">>, <<"a", "@", "x">>>>}

Queries ==
    [FilterField   : {<<>>, <<"a", "@", "x">>, <<"&">>},
     FilterValues  : FilterValueLists,
     Fields        : FieldLists,
     BatchSize     : {0, 2, MaximumQueryBatchSize + 1},
     NextPageToken : {<<>>, <<"a", "=">>}]

(***************************************************************************)
(* HTTP replies, bodies and their JSON decoding.                           *)
(***************************************************************************)
\* restClient.Do / authClient.Get returned an error: no HTTP response
NoResponse == [kind |-> "transport"]

Http(status, body) == [kind |-> "http", status |-> status, body |-> body]

EmptyBody == [kind |-> "empty"]
\* a body that is not JSON, such as a gateway's HTML page
TextBody  == [kind |-> "text"]
\* the JSON literal null
NullBody  == [kind |-> "null"]

\* a CSV text: a header line and the lines after it, each a list of fields
CsvBody(header, rows) == [kind |-> "csv", header |-> header, rows |-> rows]

NoResult == [kind |-> "absent"]
ResultArray(items) == [kind |-> "array", items |-> items]

\* an envelope; codesAs tells whether errors[].code is a JSON string (the wire
\* contract) or a JSON number
Envelope(success, errors, result, codesAs) ==
    [kind |-> "envelope", success |-> success, errors |-> errors,
     result |-> result, codesAs |-> codesAs]

Reason(code, message) == [code |-> code, message |-> message]

\* the Response struct
ResponseOf(body) ==
    [kind |-> "Response", Success |-> body.success, Errors |-> body.errors,
     Result |-> body.result]

\* &Response{}
ZeroResponse ==
    [kind |-> "Response", Success |-> FALSE, Errors |-> <<>>, Result |-> NoResult]

ErrTransport == [kind |-> "transport"]
ErrJSON      == [kind |-> "json"]
ErrNoBody    == [kind |-> "No body"]
ErrNotFound  == [kind |-> "errorString", msg |-> "not found"]
ErrCSV       == [kind |-> "csv"]
ErrEOF       == [kind |-> "EOF"]
ErrStatus(status, body) ==
    [kind |-> "Unexpected status code", status |-> status, body |-> body]
ErrAuthentication(status, body) ==
    [kind |-> "Authentication error", status |-> status, body |-> body]

\* json.Unmarshal / Decoder.Decode of a body into a Response whose value
\* before the call is zero: [err, response]
DecodeResponse(body, zero) ==
    CASE body.kind \in {"empty", "text"} -> [err |-> ErrJSON, response |-> zero]
      [] body.kind = "csv" -> [err |-> ErrJSON, response |-> zero]
      [] body.kind = "null" -> [err |-> NoErr, response |-> zero]
      [] body.kind = "envelope" ->
            IF body.codesAs = "number" /\ Len(body.errors) > 0
            THEN [err |-> ErrJSON, response |-> zero]
            ELSE [err |-> NoErr, response |-> ResponseOf(body)]

VARIABLES
    q,          \* the Query being encoded
    qpc,        \* "built", "valued", "sent", "parsed", "rejected"
    qin,        \* the Query as the caller built it
    form,       \* url.Values returned by q.Values()
    verr,       \* error returned by q.Values()
    wire,       \* the request body written by LeadAPI.Filter
    postForm,   \* r.PostForm on the receiving end
    client,     \* "none", "building" (inside NewClient), "ready"
    auth,       \* c.auth
    rtToken,    \* c.restRoundTripper.token
    tokenExpiresAt, \* c.tokenExpiresAt
    authLock,   \* c.authLock: the goroutine holding it, or 0
    clock,      \* time.Now(), in seconds
    issued,     \* tokens the identity endpoint has issued
    published,  \* history: the token and clock reading of the last expiry write
    inFlight,   \* history: identity requests sent and not yet answered
    pc,         \* where each goroutine is
    op,         \* the exported call each goroutine is in
    ret,        \* who called RefreshToken
    tok,        \* the local auth of RefreshToken
    rerr,       \* the error RefreshToken returned
    expired,    \* history: the token was expired when the executor checked
    first,      \* history: the reply to the first send of the call
    reply,      \* the reply to the last send of the call
    result,     \* what the call returned
    nReq,       \* history: identity requests of this call
    nResp,      \* history: identity replies of this call
    nSend,      \* history: resource requests of this call
    atSend,     \* history: <<nReq, nResp>> when the call first sent
    fq,         \* the Query of a Filter call
    decoded,    \* history: json.Unmarshal(response.Result, ...) was called
    pubs,       \* history: the (token, expiry) pairs of the last two publications
    sent        \* req.Header["Authorization"] of the call's request as last
                \* sent, and history: rt.token at that moment

qvars == <<q, qpc, qin, form, verr, wire, postForm>>

svars == <<client, auth, rtToken, tokenExpiresAt, authLock, clock, issued,
           published, inFlight, pubs>>

pvars == <<pc, op, ret, tok, rerr, expired, first, reply, result, nReq,
           nResp, nSend, atSend, fq, decoded, sent>>

vars == <<qvars, svars, pvars>>

ZeroQuery ==
    [FilterField |-> <<>>, FilterValues |-> <<>>, Fields |-> <<>>,
     BatchSize |-> 0, NextPageToken |-> <<>>]

(***************************************************************************)
(* The goroutines that use the client, and the state after construction    *)
(* of nothing yet: no client, every goroutine idle.                        *)
(***************************************************************************)
Procs == {1, 2}

NoLock == 0

\* the zero time.Time, before every clock reading
ZeroTime == 0

QueryIdle ==
    /\ q = ZeroQuery
    /\ qin = ZeroQuery
    /\ qpc = "idle"
    /\ form = EmptyValues
    /\ verr = NoErr
    /\ wire = <<>>
    /\ postForm = EmptyValues

NoReturn == [value |-> NULL, err |-> NoErr]

\* http.NewRequest: no Authorization header yet
NotSent == [Authorization |-> <<>>, token |-> 0]

ClientIdle ==
    /\ client = "none"
    /\ auth = NULL
    /\ rtToken = 0
    /\ tokenExpiresAt = ZeroTime
    /\ authLock = NoLock
    /\ clock = 1
    /\ issued = 0
    /\ published = NULL
    /\ inFlight = 0
    /\ pc = [p \in Procs |-> "idle"]
    /\ op = [p \in Procs |-> "none"]
    /\ ret = [p \in Procs |-> "none"]
    /\ tok = [p \in Procs |-> NULL]
    /\ rerr = [p \in Procs |-> NoErr]
    /\ expired = [p \in Procs |-> FALSE]
    /\ first = [p \in Procs |-> NULL]
    /\ reply = [p \in Procs |-> NULL]
    /\ result = [p \in Procs |-> NoReturn]
    /\ nReq = [p \in Procs |-> 0]
    /\ nResp = [p \in Procs |-> 0]
    /\ nSend = [p \in Procs |-> 0]
    /\ atSend = [p \in Procs |-> <<>>]
    /\ fq = [p \in Procs |-> ZeroQuery]
    /\ decoded = [p \in Procs |-> FALSE]
    /\ pubs = <<>>
    /\ sent = [p \in Procs |-> NotSent]

(***************************************************************************)
(* The query builder on its own: Values, the form body, the receiving end. *)
(***************************************************************************)
QInit ==
    /\ q \in Queries
    /\ qin = q
    /\ qpc = "built"
    /\ form = EmptyValues
    /\ verr = NoErr
    /\ wire = <<>>
    /\ postForm = EmptyValues
    /\ ClientIdle

\* query, err := q.Values()
CallValues ==
    /\ qpc = "built"
    /\ q' = QueryAfterValues(q)
    /\ form' = Values(q).values
    /\ verr' = Values(q).err
    /\ qpc' = IF Values(q).err = NoErr THEN "valued" ELSE "rejected"
    /\ UNCHANGED <<qin, wire, postForm, svars, pvars>>

\* strings.NewReader(query.Encode()) as the body of the POST
EncodeBody ==
    /\ qpc = "valued"
    /\ wire' = Encode(form)
    /\ qpc' = "sent"
    /\ UNCHANGED <<q, qin, form, verr, postForm, svars, pvars>>

\* r.ParseForm() on the receiving end
ParseForm ==
    /\ qpc = "sent"
    /\ postForm' = ParseQuery(wire)
    /\ qpc' = "parsed"
    /\ UNCHANGED <<q, qin, form, verr, wire, svars, pvars>>

QNext == CallValues \/ EncodeBody \/ ParseForm

SpecQuery == QInit /\ [][QNext]_vars

(***************************************************************************)
(* Properties of the query builder (checked under SpecQuery).              *)
(***************************************************************************)
\* C1: a Query with 1..300 filter values, BatchSize 0 and no pagination
\* token is accepted by Values(), and the form has batchSize=300 and no
\* nextPageToken key.
C1_DefaultBatchSize ==
    (/\ qpc # "built"
     /\ Len(qin.FilterValues) \in 1..300
     /\ qin.BatchSize = 0
     /\ qin.NextPageToken = <<>>)
    => (/\ verr = NoErr
        /\ batchSizeKey \in DOMAIN form
        /\ form[batchSizeKey] = << <<"3", "0", "0">> >>
        /\ nextPageTokenKey \notin DOMAIN form)

C1_Witness ==
    /\ qpc = "valued"
    /\ Len(qin.FilterValues) = 300
    /\ qin.BatchSize = 0
    /\ qin.NextPageToken = <<>>
    /\ form[batchSizeKey] = << <<"3", "0", "0">> >>

\* C3: round trip: the receiving end, parsing the form body written for a
\* valid Query, reads filterType = FilterField, filterValues = the filter
\* values joined by commas in order and, when Fields is not empty, fields =
\* the field names joined by commas in order.
C3_RoundTrip ==
    qpc = "parsed"
    => (/\ ValuesGet(postForm, filterTypeKey) = qin.FilterField
        /\ ValuesGet(postForm, filterValuesKey) = Join(qin.FilterValues, <<",">>)
        /\ Len(qin.Fields) > 0
             => ValuesGet(postForm, fieldsKey) = Join(qin.Fields, <<",">>))

C3_Witness ==
    /\ qpc = "parsed"
    /\ qin.FilterField = <<"a", "@", "x">>
    /\ qin.FilterValues = << <<"a", "@", "x">>, <<"&">> >>
    /\ Len(qin.Fields) = 3
    /\ ValuesGet(postForm, filterValuesKey) = <<"a", "@", "x", ",", "&">>


(***************************************************************************)
(* Bounds of the client model.                                             *)
(***************************************************************************)
\* the clock runs from 1 to MaxClock
MaxClock == 3
\* the identity endpoint issues at most MaxTokens tokens
MaxTokens == 3
\* expires_in of an issued token is 0..MaxExpiresIn seconds
MaxExpiresIn == 1

(***************************************************************************)
(* Client.RefreshToken, NewClient, GetTokenInfo.                           *)
(***************************************************************************)
\* the locals of a goroutine entering the exported call o
Begin(p, o, at, r, query, ex, res) ==
    /\ pc' = [pc EXCEPT ![p] = at]
    /\ op' = [op EXCEPT ![p] = o]
    /\ ret' = [ret EXCEPT ![p] = r]
    /\ tok' = [tok EXCEPT ![p] = NULL]
    /\ rerr' = [rerr EXCEPT ![p] = NoErr]
    /\ expired' = [expired EXCEPT ![p] = ex]
    /\ result' = [result EXCEPT ![p] = res]
    /\ first' = [first EXCEPT ![p] = NULL]
    /\ reply' = [reply EXCEPT ![p] = NULL]
    /\ nReq' = [nReq EXCEPT ![p] = 0]
    /\ nResp' = [nResp EXCEPT ![p] = 0]
    /\ nSend' = [nSend EXCEPT ![p] = 0]
    /\ atSend' = [atSend EXCEPT ![p] = <<>>]
    /\ fq' = [fq EXCEPT ![p] = query]
    /\ decoded' = [decoded EXCEPT ![p] = FALSE]
    /\ sent' = [sent EXCEPT ![p] = NotSent]

\* a goroutine is between calls, and no goroutine has panicked
CanCall(p) ==
    /\ pc[p] \in {"idle", "done"}
    /\ \A o \in Procs : pc[o] # "crashed"

\* time passes
Tick ==
    /\ clock < MaxClock
    /\ clock' = clock + 1
    /\ UNCHANGED <<qvars, pvars, client, auth, rtToken, tokenExpiresAt, authLock,
                   issued, published, pubs, inFlight>>

\* a bug: the error of RefreshToken is dropped, as doWithRetry drops it
NewClientReturn_ignoresError(e) ==
    [client |-> "ready", result |-> [value |-> [kind |-> "Client"], err |-> NoErr]]

\* NewClient's outcome on the error of its RefreshToken
NewClientReturn(e) ==
    IF e # NoErr
    THEN [client |-> "none", result |-> [value |-> NULL, err |-> e]]
    ELSE [client |-> "ready", result |-> [value |-> [kind |-> "Client"], err |-> NoErr]]

\* a bug: doWithRetry sends again whatever the reactive refresh returned
AfterRefresh_retriesAnyway(p, e, t) ==
    CASE ret[p] = "NewClient" ->
            /\ client' = NewClientReturn(e).client
            /\ result' = [result EXCEPT ![p] = NewClientReturn(e).result]
            /\ pc' = [pc EXCEPT ![p] = "done"]
      [] ret[p] = "RefreshToken" ->
            /\ result' = [result EXCEPT ![p] = [value |-> t, err |-> e]]
            /\ pc' = [pc EXCEPT ![p] = "done"]
            /\ UNCHANGED client
      [] ret[p] = "proactive" ->
            /\ pc' = [pc EXCEPT ![p] = "send"]
            /\ UNCHANGED <<client, result>>
      [] ret[p] = "reactive" ->
            /\ pc' = [pc EXCEPT ![p] = "resend"]
            /\ UNCHANGED <<client, result>>

\* where RefreshToken returns to, with error e and token t
AfterRefresh(p, e, t) ==
    CASE ret[p] = "NewClient" ->
            /\ client' = NewClientReturn(e).client
            /\ result' = [result EXCEPT ![p] = NewClientReturn(e).result]
            /\ pc' = [pc EXCEPT ![p] = "done"]
      [] ret[p] = "RefreshToken" ->
            /\ result' = [result EXCEPT ![p] = [value |-> t, err |-> e]]
            /\ pc' = [pc EXCEPT ![p] = "done"]
            /\ UNCHANGED client
      [] ret[p] = "proactive" ->
            \* doWithRetry / doRequest drop what RefreshToken returns
            /\ pc' = [pc EXCEPT ![p] = "send"]
            /\ UNCHANGED <<client, result>>
      [] ret[p] = "reactive" ->
            \* checkToken returns the error; doWithRetry returns nil, err
            /\ IF e # NoErr
               THEN /\ result' = [result EXCEPT ![p] = [value |-> NULL, err |-> e]]
                    /\ pc' = [pc EXCEPT ![p] = "done"]
               ELSE /\ pc' = [pc EXCEPT ![p] = "resend"]
                    /\ UNCHANGED result
            /\ UNCHANGED client

\* config -> NewClient: the client is built and RefreshToken is called
StartNewClient(p) ==
    /\ CanCall(p)
    /\ client = "none"
    /\ client' = "building"
    /\ Begin(p, "NewClient", "rt_get", "NewClient", ZeroQuery, FALSE, NoReturn)
    /\ UNCHANGED <<qvars, auth, rtToken, tokenExpiresAt, authLock, clock, issued,
                   published, pubs, inFlight>>


\* c.RefreshToken() called by the application
StartRefreshToken(p) ==
    /\ CanCall(p)
    /\ client = "ready"
    /\ Begin(p, "RefreshToken", "rt_get", "RefreshToken", ZeroQuery, FALSE, NoReturn)
    /\ UNCHANGED <<qvars, svars>>

\* c.authClient.Get(c.identityEndpoint): the request leaves
IdentityRequest(p) ==
    /\ pc[p] = "rt_get"
    /\ pc' = [pc EXCEPT ![p] = "rt_wait"]
    /\ nReq' = [nReq EXCEPT ![p] = @ + 1]
    /\ inFlight' = inFlight + 1
    /\ UNCHANGED <<qvars, client, auth, rtToken, tokenExpiresAt, authLock, clock,
                   issued, published, pubs, op, ret, tok, rerr, expired, first, reply,
                   result, nResp, nSend, atSend, fq, decoded, sent>>

\* what the identity endpoint answers when it grants no token
IdentityFailures == {NoResponse, Http(401, TextBody), Http(200, TextBody)}

\* a bug: the failure of the identity request is not reported
RefreshError_nil(r) == NoErr

\* the error of RefreshToken for a reply that carries no token
RefreshError(r) ==
    IF r.kind = "transport" THEN ErrTransport
    ELSE IF r.status # 200 THEN ErrAuthentication(r.status, r.body)
    ELSE ErrJSON

\* transport error, status other than 200, or a 200 body that does not decode
IdentityFails(p, r) ==
    /\ pc[p] = "rt_wait"
    /\ inFlight' = inFlight - 1
    /\ nResp' = [nResp EXCEPT ![p] = @ + 1]
    /\ rerr' = [rerr EXCEPT ![p] = RefreshError(r)]
    /\ AfterRefresh(p, RefreshError(r), NULL)
    /\ UNCHANGED <<qvars, auth, rtToken, tokenExpiresAt, authLock, clock, issued,
                   published, pubs, op, ret, tok, expired, first, reply, nReq, nSend,
                   atSend, fq, decoded, sent>>

\* 200 with {access_token, expires_in}: decoded into the local auth
IdentityGrants(p, n) ==
    /\ pc[p] = "rt_wait"
    /\ issued < MaxTokens
    /\ issued' = issued + 1
    /\ inFlight' = inFlight - 1
    /\ nResp' = [nResp EXCEPT ![p] = @ + 1]
    /\ tok' = [tok EXCEPT ![p] = [AccessToken |-> issued + 1, ExpiresIn |-> n]]
    /\ pc' = [pc EXCEPT ![p] = "rt_lock"]
    /\ UNCHANGED <<qvars, client, auth, rtToken, tokenExpiresAt, authLock, clock,
                   published, pubs, op, ret, rerr, expired, first, reply, result, nReq,
                   nSend, atSend, fq, decoded, sent>>

\* a bug: the lock excludes nobody
LockFree_always == TRUE

\* sync.Mutex: Lock() returns only when nobody holds the mutex
LockFree == authLock = NoLock

\* c.authLock.Lock()
Lock(p) ==
    /\ pc[p] = "rt_lock"
    /\ LockFree
    /\ authLock' = p
    /\ pc' = [pc EXCEPT ![p] = "rt_auth"]
    /\ UNCHANGED <<qvars, client, auth, rtToken, tokenExpiresAt, clock, issued,
                   published, pubs, inFlight, op, ret, tok, rerr, expired, first, reply,
                   result, nReq, nResp, nSend, atSend, fq, decoded, sent>>

\* c.auth = &auth
PublishAuth(p) ==
    /\ pc[p] = "rt_auth"
    /\ auth' = tok[p]
    /\ pc' = [pc EXCEPT ![p] = "rt_token"]
    /\ UNCHANGED <<qvars, client, rtToken, tokenExpiresAt, authLock, clock, issued,
                   published, pubs, inFlight, op, ret, tok, rerr, expired, first, reply,
                   result, nReq, nResp, nSend, atSend, fq, decoded, sent>>

\* c.restRoundTripper.token = auth.AccessToken
PublishToken(p) ==
    /\ pc[p] = "rt_token"
    /\ rtToken' = tok[p].AccessToken
    /\ pc' = [pc EXCEPT ![p] = "rt_expiry"]
    /\ UNCHANGED <<qvars, client, auth, tokenExpiresAt, authLock, clock, issued,
                   published, pubs, inFlight, op, ret, tok, rerr, expired, first, reply,
                   result, nReq, nResp, nSend, atSend, fq, decoded, sent>>

\* a bug: the lifetime is taken as nanoseconds, which is no whole second
ExpiryInstant_nanos(now, expiresIn) == now

\* time.Now().Add(time.Duration(auth.ExpiresIn) * time.Second)
ExpiryInstant(now, expiresIn) == now + expiresIn

\* the last two elements of a sequence
LastTwo(s) == IF Len(s) <= 2 THEN s ELSE SubSeq(s, Len(s) - 1, Len(s))

\* c.tokenExpiresAt = time.Now().Add(...)
PublishExpiry(p) ==
    /\ pc[p] = "rt_expiry"
    /\ tokenExpiresAt' = ExpiryInstant(clock, tok[p].ExpiresIn)
    /\ published' = [token |-> tok[p].AccessToken, at |-> clock]
    /\ pubs' = LastTwo(Append(pubs, <<tok[p].AccessToken, ExpiryInstant(clock, tok[p].ExpiresIn)>>))
    /\ pc' = [pc EXCEPT ![p] = "rt_unlock"]
    /\ UNCHANGED <<qvars, client, auth, rtToken, authLock, clock, issued,
                   inFlight, op, ret, tok, rerr, expired, first, reply,
                   result, nReq, nResp, nSend, atSend, fq, decoded, sent>>

\* a bug: RefreshToken returns without releasing the lock
Unlock_keepsLock(p) ==
    /\ pc[p] = "rt_unlock"
    /\ authLock' = authLock
    /\ tok' = [tok EXCEPT ![p] = NULL]
    /\ rerr' = [rerr EXCEPT ![p] = NoErr]
    /\ AfterRefresh(p, NoErr, tok[p])
    /\ UNCHANGED <<qvars, auth, rtToken, tokenExpiresAt, clock, issued, published, pubs,
                   inFlight, op, ret, expired, first, reply, nReq,
                   nResp, nSend, atSend, fq, decoded, sent>>

\* the deferred c.authLock.Unlock(), and return auth, nil
Unlock(p) ==
    /\ pc[p] = "rt_unlock"
    /\ authLock' = NoLock
    /\ tok' = [tok EXCEPT ![p] = NULL]
    /\ rerr' = [rerr EXCEPT ![p] = NoErr]
    /\ AfterRefresh(p, NoErr, tok[p])
    /\ UNCHANGED <<qvars, auth, rtToken, tokenExpiresAt, clock, issued, published, pubs,
                   inFlight, op, ret, expired, first, reply, nReq,
                   nResp, nSend, atSend, fq, decoded, sent>>

\* GetTokenInfo: c.auth.AccessToken is read
StartGetTokenInfo(p) ==
    /\ CanCall(p)
    /\ client = "ready"
    /\ Begin(p, "GetTokenInfo", "gti_expires", "none", ZeroQuery, FALSE,
             [value |-> [kind |-> "TokenInfo", Token |-> auth.AccessToken,
                         Expires |-> ZeroTime],
              err |-> NoErr])
    /\ UNCHANGED <<qvars, svars>>

\* GetTokenInfo: c.tokenExpiresAt is read, and the TokenInfo returned
GetTokenInfoExpires(p) ==
    /\ pc[p] = "gti_expires"
    /\ result' = [result EXCEPT ![p].value.Expires = tokenExpiresAt]
    /\ pc' = [pc EXCEPT ![p] = "done"]
    /\ UNCHANGED <<qvars, svars, op, ret, tok, rerr, expired, first, reply, nReq,
                   nResp, nSend, atSend, fq, decoded, sent>>


(***************************************************************************)
(* Client.do, checkToken, doWithRetry, doRequest.                          *)
(***************************************************************************)
\* a bug: the expiry instant itself counts as expired
Before_orEqual(t, u) == t <= u

\* time.Time.Before
Before(t, u) == t < u

\* c.tokenExpiresAt.Before(time.Now())
TokenExpired == Before(tokenExpiresAt, clock)

\* restRoundTripper.RoundTrip: req.Header.Add("Authorization", "Bearer "+rt.token)
\* on the request the caller handed in; s is sent[p] before the send
RoundTrip(s) ==
    [Authorization |-> Append(s.Authorization, <<"Bearer ", rtToken>>),
     token |-> rtToken]

\* a bug: a transport failure is taken for an empty envelope
do_swallowTransport(r) ==
    IF r.kind = "transport" THEN [response |-> ZeroResponse, err |-> NoErr]
    ELSE IF r.status # 200 THEN [response |-> NULL, err |-> ErrStatus(r.status, r.body)]
    ELSE IF r.body.kind = "empty" THEN [response |-> NULL, err |-> ErrNoBody]
    ELSE [response |-> DecodeResponse(r.body, NULL).response,
          err |-> DecodeResponse(r.body, NULL).err]

\* Client.do on the reply of restClient.Do: [response, err]
do(r) ==
    IF r.kind = "transport" THEN [response |-> NULL, err |-> ErrTransport]
    ELSE IF r.status # 200 THEN [response |-> NULL, err |-> ErrStatus(r.status, r.body)]
    ELSE IF r.body.kind = "empty" THEN [response |-> NULL, err |-> ErrNoBody]
    ELSE LET d == DecodeResponse(r.body, NULL)
         IN  IF d.err # NoErr THEN [response |-> NULL, err |-> d.err]
             ELSE [response |-> d.response, err |-> NoErr]

\* a bug: only the expired-token code asks for a retry
IsAuthCode_only602(response) ==
    /\ Len(response.Errors) > 0
    /\ response.Errors[1].code = "602"

\* a bug: every soft error asks for a refresh and a retry
IsAuthCode_anyCode(response) == Len(response.Errors) > 0

\* the condition of checkToken: the first error is 601 or 602
IsAuthCode(response) ==
    /\ Len(response.Errors) > 0
    /\ response.Errors[1].code \in {"601", "602"}

\* Get, Post and Delete all run doWithRetry
EnvelopedOps == {"Get", "Post", "Delete"}

\* Get/Post/Delete -> doWithRetry: the expiry check, and RefreshToken if expired
StartEnveloped(p, o) ==
    /\ CanCall(p)
    /\ client = "ready"
    /\ Begin(p, o, IF TokenExpired THEN "rt_get" ELSE "send", "proactive",
             ZeroQuery, tokenExpiresAt < clock, NoReturn)
    /\ UNCHANGED <<qvars, svars>>

\* doWithRetry: c.do(req), then checkToken on its response
SendEnveloped(p, r) ==
    /\ pc[p] = "send"
    /\ op[p] \in EnvelopedOps
    /\ nSend' = [nSend EXCEPT ![p] = @ + 1]
    /\ atSend' = [atSend EXCEPT ![p] = <<nReq[p], nResp[p]>>]
    /\ first' = [first EXCEPT ![p] = r]
    /\ reply' = [reply EXCEPT ![p] = r]
    /\ IF do(r).err # NoErr
       THEN /\ result' = [result EXCEPT ![p] = [value |-> NULL, err |-> do(r).err]]
            /\ pc' = [pc EXCEPT ![p] = "done"]
            /\ UNCHANGED ret
       ELSE IF do(r).response = NULL
       THEN \* checkToken reads response.Errors of a nil *Response
            /\ pc' = [pc EXCEPT ![p] = "crashed"]
            /\ UNCHANGED <<result, ret>>
       ELSE IF IsAuthCode(do(r).response)
       THEN /\ pc' = [pc EXCEPT ![p] = "rt_get"]
            /\ ret' = [ret EXCEPT ![p] = "reactive"]
            /\ UNCHANGED result
       ELSE /\ result' = [result EXCEPT ![p] = [value |-> do(r).response, err |-> NoErr]]
            /\ pc' = [pc EXCEPT ![p] = "done"]
            /\ UNCHANGED ret
    /\ sent' = [sent EXCEPT ![p] = RoundTrip(sent[p])]
    /\ UNCHANGED <<qvars, svars, op, tok, rerr, expired, nReq, nResp, fq, decoded>>

\* a bug: the retry's envelope is checked like the first one
RetryAgain_onAuthCode(d) ==
    /\ d.err = NoErr
    /\ d.response # NULL
    /\ Len(d.response.Errors) > 0
    /\ d.response.Errors[1].code \in {"601", "602"}

\* doWithRetry returns what the second c.do(req) returned, unexamined
RetryAgain(d) == FALSE

\* doWithRetry: response, err = c.do(req) after checkToken asked for a retry
Resend(p, r) ==
    /\ pc[p] = "resend"
    /\ nSend' = [nSend EXCEPT ![p] = @ + 1]
    /\ reply' = [reply EXCEPT ![p] = r]
    /\ result' = [result EXCEPT ![p] = [value |-> do(r).response, err |-> do(r).err]]
    /\ pc' = [pc EXCEPT ![p] = IF RetryAgain(do(r)) THEN "rt_get" ELSE "done"]
    /\ sent' = [sent EXCEPT ![p] = RoundTrip(sent[p])]
    /\ UNCHANGED <<qvars, svars, op, ret, tok, rerr, expired, first, nReq, nResp,
                   atSend, fq, decoded>>

(***************************************************************************)
(* handleError and the resource APIs that run doRequest.                   *)
(***************************************************************************)
\* json.Unmarshal(body, &mktoErr): [err, value]; ResponseError.Code is an int,
\* so a code given as a JSON string does not decode
DecodeErrorResponse(body) ==
    CASE body.kind \in {"empty", "text", "csv"} -> [err |-> ErrJSON, value |-> NULL]
      [] body.kind = "null" ->
            [err |-> NoErr,
             value |-> [kind |-> "ErrorResponse", Success |-> FALSE, Errors |-> <<>>]]
      [] body.kind = "envelope" ->
            IF body.codesAs = "string" /\ Len(body.errors) > 0
            THEN [err |-> ErrJSON, value |-> NULL]
            ELSE [err |-> NoErr,
                  value |-> [kind |-> "ErrorResponse", Success |-> body.success,
                             Errors |-> body.errors]]

\* the earlier handleError: a fixed message, the body never decoded
handleError_fixedMessage(operation, r) ==
    [kind |-> "Error", Message |-> <<"error creating import">>, Body |-> r.body,
     StatusCode |-> r.status]

\* handleError(operation, resp)
handleError(operation, r) ==
    IF DecodeErrorResponse(r.body).err = NoErr
    THEN DecodeErrorResponse(r.body).value
    ELSE [kind |-> "Error", Message |-> <<"error: ", operation>>, Body |-> r.body,
          StatusCode |-> r.status]

RawOps == {"Filter", "DescribeFields", "List", "Describe", "Create", "ImportGet", "Failures"}

\* the operation name each API hands to handleError
OperationName(o) ==
    CASE o = "Filter" -> "filter leads"
      [] o = "DescribeFields" -> "describe2 lead"
      [] o = "List" -> "list custom objects"
      [] o = "Describe" -> "describe custom object"
      [] o = "Create" -> "create lead import"
      [] o = "ImportGet" -> "get lead import"
      [] o = "Failures" -> "get lead import failures"

\* json.Unmarshal(response.Result, &slice): [err, items]
UnmarshalResult(res) ==
    IF res.kind = "array" THEN [err |-> NoErr, items |-> res.items]
    ELSE [err |-> ErrJSON, items |-> <<>>]

\* the names of searchable[...]: every name of every group
SearchableNames(obj) ==
    UNION {{obj.SearchableFields[i][j] : j \in DOMAIN obj.SearchableFields[i]} :
             i \in DOMAIN obj.SearchableFields}


\* a bug: the fields are returned as the response gave them
MarkSearchable_asReceived(obj) == obj

\* field.Searchable = searchable[field.Name], for every field of object[0]
MarkSearchable(obj) ==
    [obj EXCEPT !.Fields =
        [i \in DOMAIN obj.Fields |->
            [obj.Fields[i] EXCEPT !.Searchable = obj.Fields[i].Name \in SearchableNames(obj)]]]

\* json.Unmarshal / Decode of a body into a CreateImportResponse: [err, value]
DecodeImportResponse(body) ==
    CASE body.kind \in {"empty", "text", "csv"} -> [err |-> ErrJSON, value |-> NULL]
      [] body.kind = "null" ->
            [err |-> NoErr, value |-> [kind |-> "import", Success |-> FALSE, Result |-> <<>>]]
      [] body.kind = "envelope" ->
            [err |-> NoErr,
             value |-> [kind |-> "import", Success |-> body.success,
                        Result |-> UnmarshalResult(body.result).items]]

\* one LeadImportFailure: the last column is the reason, the others the fields
ImportFailure(header, record) ==
    [Reason |-> record[Len(header)],
     Fields |-> [i \in 1..(Len(header) - 1) |-> <<header[i], record[i]>>]]

\* csv.Reader.Read on a line after the header: a line with another number of
\* fields than the header is an error
RecordOK(header, record) == Len(record) = Len(header)

\* the records before the first line reader.Read fails on
ReadableRows(header, rows) ==
    LET bad == {i \in 1..Len(rows) : ~RecordOK(header, rows[i])}
        n   == IF bad = {} THEN Len(rows)
               ELSE (CHOOSE i \in bad : \A j \in bad : i <= j) - 1
    IN  SubSeq(rows, 1, n)

\* ImportAPI.Failures on a 200 reply: the header, then records until Read fails
ReadFailures(body) ==
    CASE body.kind = "empty" -> [value |-> NULL, err |-> ErrEOF]
      [] body.kind = "envelope" ->
            \* a quote inside an unquoted field
            [value |-> NULL, err |-> ErrCSV]
      [] body.kind \in {"text", "null"} ->
            [value |-> [kind |-> "failures", items |-> <<>>], err |-> NoErr]
      [] body.kind = "csv" ->
            LET rows == ReadableRows(body.header, body.rows)
            IN  [value |-> [kind |-> "failures",
                            items |-> [i \in 1..Len(rows) |->
                                          ImportFailure(body.header, rows[i])]],
                 err |-> NoErr]

\* what a resource API returns once doRequest gave it the HTTP reply r:
\* [value, err, decoded], decoded telling that response.Result was unmarshalled
Finish(o, r) ==
    IF o = "Failures" /\ r.status = 404
    THEN \* no errors
         [value |-> NULL, err |-> NoErr, decoded |-> FALSE]
    ELSE IF r.status # 200
    THEN [value |-> NULL, err |-> handleError(OperationName(o), r), decoded |-> FALSE]
    ELSE IF o = "Failures"
    THEN [value |-> ReadFailures(r.body).value, err |-> ReadFailures(r.body).err,
          decoded |-> FALSE]
    ELSE IF o \in {"Create", "ImportGet"}
    THEN [value |-> DecodeImportResponse(r.body).value,
          err |-> DecodeImportResponse(r.body).err, decoded |-> FALSE]
    ELSE LET d == DecodeResponse(r.body, ZeroResponse)
             u == UnmarshalResult(d.response.Result)
         IN  IF d.err # NoErr
             THEN [value |-> NULL, err |-> d.err, decoded |-> FALSE]
             ELSE CASE o = "Filter" ->
                         IF u.err # NoErr
                         THEN [value |-> NULL, err |-> u.err, decoded |-> TRUE]
                         ELSE [value |-> [kind |-> "leads", items |-> u.items],
                               err |-> NoErr, decoded |-> TRUE]
                    [] o = "List" ->
                         [value |-> [kind |-> "objects", items |-> u.items],
                          err |-> u.err, decoded |-> TRUE]
                    [] o = "Describe" ->
                         IF Len(u.items) = 0
                         THEN [value |-> NULL, err |-> ErrNotFound, decoded |-> TRUE]
                         ELSE [value |-> [kind |-> "object",
                                          object |-> MarkSearchable(u.items[1])],
                               err |-> u.err, decoded |-> TRUE]
                    [] o = "DescribeFields" ->
                         IF Len(u.items) = 0
                         THEN [value |-> NULL, err |-> ErrNotFound, decoded |-> TRUE]
                         ELSE [value |-> [kind |-> "fields",
                                          fields |-> MarkSearchable(u.items[1]).Fields],
                               err |-> u.err, decoded |-> TRUE]

\* DescribeFields, List, Describe, Create, Get, Failures -> doRequest: the expiry check, and
\* RefreshToken if expired
StartRaw(p, o) ==
    /\ CanCall(p)
    /\ client = "ready"
    /\ o \in RawOps \ {"Filter"}
    /\ Begin(p, o, IF TokenExpired THEN "rt_get" ELSE "send", "proactive",
             ZeroQuery, tokenExpiresAt < clock, NoReturn)
    /\ UNCHANGED <<qvars, svars>>

\* Filter: q.Values(), its error returned at once; otherwise doRequest
StartFilter(p, query) ==
    /\ CanCall(p)
    /\ client = "ready"
    /\ IF Values(query).err # NoErr
       THEN Begin(p, "Filter", "done", "none", query, FALSE,
                  [value |-> NULL, err |-> Values(query).err])
       ELSE Begin(p, "Filter", IF TokenExpired THEN "rt_get" ELSE "send",
                  "proactive", query, tokenExpiresAt < clock, NoReturn)
    /\ UNCHANGED <<qvars, svars>>

\* a bug: doRequest treats the reply as Client.do does, a status other than
\* 200 becoming an error
doRequest_examines(r) ==
    IF r.kind = "transport" THEN [response |-> NULL, err |-> ErrTransport]
    ELSE IF r.status # 200 THEN [response |-> NULL, err |-> ErrStatus(r.status, r.body)]
    ELSE [response |-> r, err |-> NoErr]

\* doRequest after the expiry check: response, err = c.restClient.Do(req),
\* returned as they are: [response, err]
doRequest(r) ==
    IF r.kind = "transport" THEN [response |-> NULL, err |-> ErrTransport]
    ELSE [response |-> r, err |-> NoErr]

\* doRequest: c.restClient.Do(req), returned as it is; then the API's handling
SendRaw(p, r) ==
    /\ pc[p] = "send"
    /\ op[p] \in RawOps
    /\ nSend' = [nSend EXCEPT ![p] = @ + 1]
    /\ atSend' = [atSend EXCEPT ![p] = <<nReq[p], nResp[p]>>]
    /\ first' = [first EXCEPT ![p] = r]
    /\ reply' = [reply EXCEPT ![p] = r]
    /\ pc' = [pc EXCEPT ![p] = "done"]
    /\ IF doRequest(r).err # NoErr
       THEN /\ result' = [result EXCEPT ![p] = [value |-> NULL, err |-> doRequest(r).err]]
            /\ UNCHANGED decoded
       ELSE /\ result' = [result EXCEPT ![p] =
                            [value |-> Finish(op[p], doRequest(r).response).value,
                             err |-> Finish(op[p], doRequest(r).response).err]]
            /\ decoded' = [decoded EXCEPT ![p] = Finish(op[p], doRequest(r).response).decoded]
    /\ sent' = [sent EXCEPT ![p] = RoundTrip(sent[p])]
    /\ UNCHANGED <<qvars, svars, op, ret, tok, rerr, expired, nReq, nResp, fq>>

(***************************************************************************)
(* What the resource endpoints answer.                                     *)
(***************************************************************************)
NotFound610 == Reason("610", "Not Found")
Expired602  == Reason("602", "Access token expired")
Invalid601  == Reason("601", "Access token invalid")

\* one described object: three fields, two of them named in searchableFields
SampleObject ==
    [Fields |-> <<[Name |-> "email", Searchable |-> FALSE],
                  [Name |-> "company", Searchable |-> TRUE],
                  [Name |-> "id", Searchable |-> FALSE]>>,
     SearchableFields |-> << <<"email">>, <<"id", "email">>, <<"extId">> >>]

EnvOK  == Envelope(TRUE, <<>>, ResultArray(<<SampleObject>>), "string")
EnvErr(errors) == Envelope(FALSE, errors, NoResult, "string")

\* what a resource endpoint may answer
Replies ==
    {NoResponse,
     Http(200, EnvOK),
     Http(200, Envelope(TRUE, <<>>, ResultArray(<<>>), "string")),
     Http(200, EnvErr(<<Expired602>>)),
     Http(200, EnvErr(<<Invalid601>>)),
     Http(200, EnvErr(<<NotFound610>>)),
     Http(200, EnvErr(<<NotFound610, Expired602>>)),
     Http(200, Envelope(FALSE, <<NotFound610>>, NoResult, "number")),
     Http(200, EmptyBody),
     Http(200, TextBody),
     Http(200, NullBody),
     Http(404, EmptyBody),
     Http(404, TextBody),
     Http(404, NullBody),
     Http(404, EnvErr(<<NotFound610>>)),
     Http(404, Envelope(FALSE, <<NotFound610>>, NoResult, "number")),
     Http(200, CsvBody(<<"email", "reason">>, << <<"a@x", "bad">>, <<"b@x", "worse">> >>)),
     Http(200, CsvBody(<<"email", "reason">>, << <<"a@x", "bad">>, <<"b@x">>, <<"c@x", "bad">> >>))}

\* the replies of the concurrent specification: its requests are answered
\* with a success, the refreshes being what the goroutines race on
CoreReplies ==
    {Http(200, EnvOK)}

\* the queries handed to Filter
FilterQueries ==
    {[ZeroQuery EXCEPT !.FilterField = <<"a">>, !.FilterValues = vs] :
        vs \in {<<>>, << <<"a">> >>, LongList(MaximumQueryBatchSize + 1)}}

(***************************************************************************)
(* Spec: one goroutine builds a client and calls every API, one call after *)
(* the other; the endpoints answer as they like.                           *)
(***************************************************************************)
Init == QueryIdle /\ ClientIdle

\* the goroutine of Spec
Main == 1

Next ==
    \/ Tick
    \/ StartNewClient(Main)
    \/ StartRefreshToken(Main)
    \/ StartGetTokenInfo(Main)
    \/ GetTokenInfoExpires(Main)
    \/ \E o \in EnvelopedOps : StartEnveloped(Main, o)
    \/ \E o \in RawOps : StartRaw(Main, o)
    \/ \E query \in FilterQueries : StartFilter(Main, query)
    \/ IdentityRequest(Main)
    \/ \E r \in IdentityFailures : IdentityFails(Main, r)
    \/ \E n \in 0..MaxExpiresIn : IdentityGrants(Main, n)
    \/ Lock(Main)
    \/ PublishAuth(Main)
    \/ PublishToken(Main)
    \/ PublishExpiry(Main)
    \/ Unlock(Main)
    \/ \E r \in Replies : SendEnveloped(Main, r)
    \/ \E r \in Replies : Resend(Main, r)
    \/ \E r \in Replies : SendRaw(Main, r)

Spec == Init /\ [][Next]_vars

(***************************************************************************)
(* SpecConc: the goroutines of Procs share one client and both send         *)
(* requests through it; Main builds it, Reader also reads the token.       *)
(***************************************************************************)
\* the second goroutine of SpecConc
Reader == 2

NextConc ==
    \/ Tick
    \/ StartNewClient(Main)
    \/ StartRefreshToken(Main)
    \/ StartGetTokenInfo(Reader)
    \/ GetTokenInfoExpires(Reader)
    \/ \E p \in Procs :
        \/ StartEnveloped(p, "Get")
        \/ IdentityRequest(p)
        \/ \E r \in IdentityFailures : IdentityFails(p, r)
        \/ \E n \in 0..MaxExpiresIn : IdentityGrants(p, n)
        \/ Lock(p)
        \/ PublishAuth(p)
        \/ PublishToken(p)
        \/ PublishExpiry(p)
        \/ Unlock(p)
        \/ \E r \in CoreReplies : SendEnveloped(p, r)

SpecConc == Init /\ [][NextConc]_vars

(***************************************************************************)
(* SpecLive: SpecConc with every network call answered in the end, every   *)
(* goroutine that is inside a call scheduled again and again, and a        *)
(* goroutine waiting in Lock() getting the mutex when it is free again     *)
(* and again. Nothing obliges the application to start a call.             *)
(***************************************************************************)
\* the identity endpoint or the transport answers the request of p
IdentityAnswers(p) ==
    \/ \E r \in IdentityFailures : IdentityFails(p, r)
    \/ \E n \in 0..MaxExpiresIn : IdentityGrants(p, n)

\* the resource endpoint answers the request of p
ResourceAnswers(p) == \E r \in CoreReplies : SendEnveloped(p, r)

\* a step goroutine p takes on its own: no network, no lock to wait for
LocalStep(p) ==
    \/ IdentityRequest(p)
    \/ PublishAuth(p)
    \/ PublishToken(p)
    \/ PublishExpiry(p)
    \/ Unlock(p)
    \/ GetTokenInfoExpires(p)

\* an answer of the network to goroutine p
NetworkAnswers(p) == IdentityAnswers(p) \/ ResourceAnswers(p)

Fairness ==
    \A p \in Procs :
        /\ WF_vars(LocalStep(p))
        /\ WF_vars(NetworkAnswers(p))
        /\ SF_vars(Lock(p))

SpecLive == SpecConc /\ Fairness


(***************************************************************************)
(* Properties of the client.                                               *)
(***************************************************************************)
Calls == EnvelopedOps \cup RawOps

\* Get/Post/Delete, Filter, DescribeFields, List, Describe
EnvelopeCalls == EnvelopedOps \cup {"Filter", "DescribeFields", "List", "Describe"}

\* C2: Values() refuses a Query with no filter value or more than 300, and
\* Filter returns that error having sent neither an identity request nor a
\* resource request.
C2_InvalidQueryNoNetwork ==
    \A p \in Procs :
        (/\ op[p] = "Filter"
         /\ Len(fq[p].FilterValues) \notin 1..300)
        => (/\ Values(fq[p]).err \in {ErrTooFew, ErrTooMany}
            /\ pc[p] = "done"
            /\ result[p] = [value |-> NULL, err |-> Values(fq[p]).err]
            /\ nReq[p] = 0
            /\ nSend[p] = 0)

C2_Witness ==
    /\ op[Main] = "Filter"
    /\ pc[Main] = "done"
    /\ Len(fq[Main].FilterValues) = 301
    /\ result[Main].err = ErrTooMany
    /\ nReq[Main] = 0
    /\ nSend[Main] = 0

C5_ProactiveRefresh ==
    \A p \in Procs :
        op[p] \in Calls
        => (/\ pc[p] = "send"
                 => (/\ nReq[p] = (IF expired[p] THEN 1 ELSE 0)
                     /\ nResp[p] = nReq[p])
            /\ nSend[p] >= 1
                 => atSend[p] = (IF expired[p] THEN <<1, 1>> ELSE <<0, 0>>))

C5_Witness ==
    /\ op[Main] = "List"
    /\ expired[Main]
    /\ nSend[Main] = 1
    /\ atSend[Main] = <<1, 1>>
    /\ rerr[Main] = ErrTransport

\* a 200 envelope with success=false whose only error is 601 or 602
IsSoftAuthReply(r) ==
    /\ r.kind = "http"
    /\ r.status = 200
    /\ r.body.kind = "envelope"
    /\ ~r.body.success
    /\ Len(r.body.errors) = 1
    /\ r.body.errors[1].code \in {"601", "602"}
    /\ r.body.codesAs = "string"

\* a 200 envelope with success=true
IsSuccessReply(r) ==
    /\ r.kind = "http"
    /\ r.status = 200
    /\ r.body.kind = "envelope"
    /\ r.body.success

\* C6 as stated: every Get/Post/Delete whose first reply is a 601/602
\* envelope refreshes the token and sends the request exactly once more, and
\* a successful retry is all the caller sees.
C6_Original ==
    \A p \in Procs :
        (op[p] \in EnvelopedOps /\ pc[p] = "done" /\ IsSoftAuthReply(first[p]))
        => (/\ nReq[p] = atSend[p][1] + 1
            /\ nSend[p] = 2
            /\ IsSuccessReply(reply[p])
                 => result[p] = [value |-> ResponseOf(reply[p].body), err |-> NoErr])

\* C6 amended: the call makes one refresh attempt and, when that refresh
\* succeeds, sends the request exactly once more; a successful retry is all
\* the caller sees.
C6_RetryAfterRefresh ==
    \A p \in Procs :
        (op[p] \in EnvelopedOps /\ pc[p] = "done" /\ IsSoftAuthReply(first[p]))
        => (/\ nReq[p] = atSend[p][1] + 1
            /\ nResp[p] = nReq[p]
            /\ rerr[p] = NoErr
                 => (/\ nSend[p] = 2
                     /\ IsSuccessReply(reply[p])
                          => result[p] = [value |-> ResponseOf(reply[p].body),
                                          err |-> NoErr]))

C6_Witness ==
    /\ op[Main] = "Post"
    /\ pc[Main] = "done"
    /\ first[Main] = Http(200, EnvErr(<<Invalid601>>))
    /\ reply[Main] = Http(200, EnvOK)
    /\ nSend[Main] = 2
    /\ result[Main] = [value |-> ResponseOf(EnvOK), err |-> NoErr]

\* the error carries reasons, one of them with this code
HasReason(e, code) ==
    /\ "Errors" \in DOMAIN e
    /\ \E i \in DOMAIN e.Errors : e.Errors[i].code = code

\* C7: every resource call answered by a 200 envelope with success=false and
\* errors=[610 Not Found] returns a soft error with reason 610 and never
\* decodes the result payload.
C7_SoftError610 ==
    \A p \in Procs :
        (/\ op[p] \in EnvelopeCalls
         /\ pc[p] = "done"
         /\ reply[p] = Http(200, EnvErr(<<NotFound610>>)))
        => (/\ HasReason(result[p].err, "610")
            /\ ~decoded[p])

\* what C8 says a raw-path call o returns for the 404 reply r
OpaqueNotFound(o, r) ==
    [value |-> NULL,
     err |-> [kind |-> "Error",
              Message |-> <<"error: ", OperationName(o)>>,
              Body |-> r.body,
              StatusCode |-> 404]]

IsNotFoundNotJSON(r) ==
    /\ r.kind = "http"
    /\ r.status = 404
    /\ r.body.kind \in {"empty", "text"}

\* C8 as stated: every raw-path call answered by 404 with a body that is not
\* JSON (empty included) returns a nil result and the opaque Error with status
\* 404, the raw body and the operation name.
C8_Original ==
    \A p \in Procs :
        (op[p] \in RawOps /\ pc[p] = "done" /\ IsNotFoundNotJSON(reply[p]))
        => result[p] = OpaqueNotFound(op[p], reply[p])

\* C8 amended: the same of every raw-path call but ImportAPI.Failures, which
\* takes 404 for "no failures" and returns nil, nil.
C8_NotFoundOpaque ==
    \A p \in Procs :
        (op[p] \in RawOps /\ pc[p] = "done" /\ IsNotFoundNotJSON(reply[p]))
        => IF op[p] = "Failures"
           THEN result[p] = [value |-> NULL, err |-> NoErr]
           ELSE result[p] = OpaqueNotFound(op[p], reply[p])

C8_Witness ==
    /\ op[Main] = "Describe"
    /\ pc[Main] = "done"
    /\ reply[Main] = Http(404, EmptyBody)
    /\ result[Main].err.Message = <<"error: ", "describe custom object">>
    /\ result[Main].err.StatusCode = 404

\* no goroutine is between Lock and Unlock of RefreshToken
NoPublisher == \A p \in Procs : pc[p] \notin {"rt_auth", "rt_token", "rt_expiry", "rt_unlock"}

\* C9: when no RefreshToken is publishing, the stored token, the bearer token
\* of the round-tripper and the stored expiry come from one refresh response.
C9_CoherentStore ==
    (client = "ready" /\ NoPublisher)
    => (/\ rtToken = auth.AccessToken
        /\ published.token = auth.AccessToken
        /\ tokenExpiresAt = published.at + auth.ExpiresIn)

\* both goroutines found the token expired and refreshed it; the token issued
\* second was published first
C9_Witness ==
    /\ \A p \in Procs :
         /\ op[p] = "Get"
         /\ expired[p]
         /\ nResp[p] >= 1
         /\ pc[p] \in {"send", "done"}
    /\ issued = 3
    /\ auth.AccessToken = 2
    /\ rtToken = 2
    /\ published.token = 2

\* C10: NewClient makes exactly one identity request; when RefreshToken fails
\* it returns nil and the error; when it succeeds the client holds the token
\* and its expiry, and no resource request leaves a client without a token.
C10_NewClientFailFast ==
    \A p \in Procs :
        /\ (op[p] = "NewClient" /\ pc[p] = "done")
             => (/\ nReq[p] = 1
                 /\ nResp[p] = 1
                 /\ IF rerr[p] # NoErr
                    THEN /\ result[p] = [value |-> NULL, err |-> rerr[p]]
                         /\ client = "none"
                         /\ auth = NULL
                    ELSE /\ result[p].err = NoErr
                         /\ result[p].value # NULL
                         /\ client = "ready"
                         /\ auth # NULL
                         /\ rtToken = auth.AccessToken
                         /\ published.token = auth.AccessToken
                         /\ tokenExpiresAt = published.at + auth.ExpiresIn)
        /\ (pc[p] \in {"send", "resend"} \/ nSend[p] > 0)
             => (client = "ready" /\ auth # NULL)

C10_Witness ==
    /\ op[Main] = "NewClient"
    /\ pc[Main] = "done"
    /\ result[Main] = [value |-> NULL, err |-> ErrAuthentication(401, TextBody)]
    /\ client = "none"

\* C11: a Get/Post/Delete call sends its request at most twice; once the retry
\* is answered the call is over, with at most one refresh after the first
\* send and none after the retry, and a 601/602 envelope answering the retry
\* is what the caller gets.
C11_AtMostOneRetry ==
    \A p \in Procs :
        op[p] \in EnvelopedOps
        => (/\ nSend[p] <= 2
            /\ nSend[p] >= 1 => nReq[p] <= atSend[p][1] + 1
            /\ nSend[p] = 2
                 => (/\ pc[p] = "done"
                     /\ nReq[p] = atSend[p][1] + 1
                     /\ nResp[p] = nReq[p]
                     /\ IsSoftAuthReply(reply[p])
                          => result[p] = [value |-> ResponseOf(reply[p].body),
                                          err |-> NoErr]))

\* the retry too was answered with "token expired"
C11_Witness ==
    /\ op[Main] = "Get"
    /\ pc[Main] = "done"
    /\ nSend[Main] = 2
    /\ first[Main] = Http(200, EnvErr(<<Expired602>>))
    /\ reply[Main] = Http(200, EnvErr(<<Expired602>>))
    /\ result[Main].err = NoErr
    /\ result[Main].value.Errors = <<Expired602>>

\* C12: at most one identity request is in flight at any instant, however
\* many goroutines use the client.
C12_OneRefreshInFlight == inFlight <= 1

\* C13: the (token, expiry) pair a GetTokenInfo call returns is the pair
\* published by one refresh or by the one before it, never the token of one
\* with the expiry of the other. Stated of the tokens of the last two
\* publications, the tokens being all different.
C13_NoTornRead ==
    \A p \in Procs :
        (/\ op[p] = "GetTokenInfo"
         /\ pc[p] = "done"
         /\ \E i \in DOMAIN pubs : pubs[i][1] = result[p].value.Token)
        => \E i \in DOMAIN pubs :
              pubs[i] = <<result[p].value.Token, result[p].value.Expires>>

\* handleError was called on the reply r of the raw-path call o
HandledReply(o, r) ==
    /\ r.kind = "http"
    /\ r.status # 200
    /\ ~(o = "Failures" /\ r.status = 404)

\* C14: handleError returns an ErrorResponse with the envelope's ordered
\* (code, message) reasons when the non-200 body is an envelope whose codes
\* are JSON strings, and the opaque Error only when the body is no envelope.
C14_StructuredOnEnvelope ==
    \A p \in Procs :
        (op[p] \in RawOps /\ pc[p] = "done" /\ HandledReply(op[p], reply[p]))
        => (/\ (reply[p].body.kind = "envelope" /\ reply[p].body.codesAs = "string")
                 => (/\ result[p].err.kind = "ErrorResponse"
                     /\ result[p].err.Errors = reply[p].body.errors)
            /\ reply[p].body.kind \in {"empty", "text"}
                 => result[p].err = [kind |-> "Error",
                                     Message |-> <<"error: ", OperationName(op[p])>>,
                                     Body |-> reply[p].body,
                                     StatusCode |-> reply[p].status])

\* C15: the request of every send, first attempt or retry, carries as its
\* Authorization exactly "Bearer " and the token the store held at that send.
C15_BearerOfTheStore ==
    \A p \in Procs :
        nSend[p] >= 1
        => sent[p].Authorization = << <<"Bearer ", sent[p].token>> >>

\* C16: a send that gets no HTTP response ends the call with the transport
\* error: no further send and no refresh follow it, in either mode.
C16_TransportErrorReturned ==
    \A p \in Procs :
        (op[p] \in Calls /\ nSend[p] >= 1 /\ reply[p] = NoResponse)
        => (/\ pc[p] = "done"
            /\ result[p].value = NULL
            /\ result[p].err.kind = "transport"
            /\ IF first[p] = NoResponse
               THEN nSend[p] = 1 /\ <<nReq[p], nResp[p]>> = atSend[p]
               ELSE nSend[p] = 2 /\ nReq[p] = atSend[p][1] + 1)

C16_Witness ==
    /\ \E o \in {"Post", "Describe"} :
         /\ op[Main] = o
         /\ first[Main] = NoResponse
         /\ nSend[Main] = 1
         /\ result[Main] = [value |-> NULL, err |-> ErrTransport]
    /\ auth # NULL

\* a 200 envelope with errors, the first of them neither 601 nor 602
IsOtherSoftReply(r) ==
    /\ r.kind = "http"
    /\ r.status = 200
    /\ r.body.kind = "envelope"
    /\ r.body.codesAs = "string"
    /\ Len(r.body.errors) > 0
    /\ r.body.errors[1].code \notin {"601", "602"}

RefreshFailures ==
    {[kind |-> "transport"], [kind |-> "json"]}
    \cup {[kind |-> "Authentication error", status |-> r.status, body |-> r.body] :
            r \in {x \in IdentityFailures : x.kind = "http" /\ x.status # 200}}

\* C18: the step in which RefreshToken fails (no response, a status other
\* than 200, or a 200 body that does not decode) changes none of the stored
\* token, the bearer token and the stored expiry, and hands an error back: to
\* the caller of RefreshToken, nil with that error.
C18_FailedRefreshKeepsStore ==
    [][\A p \in Procs :
         (pc[p] = "rt_wait" /\ pc'[p] \notin {"rt_wait", "rt_lock"})
         => (/\ UNCHANGED <<auth, rtToken, tokenExpiresAt>>
             /\ rerr'[p] \in RefreshFailures
             /\ ret[p] = "RefreshToken"
                  => (/\ pc'[p] = "done"
                      /\ result'[p] = [value |-> NULL, err |-> rerr'[p]]))]_vars

\* a refresh failed on a client that holds the token of an earlier one
C18_Witness ==
    /\ op[Main] = "RefreshToken"
    /\ pc[Main] = "done"
    /\ result[Main] = [value |-> NULL, err |-> ErrAuthentication(401, TextBody)]
    /\ auth # NULL
    /\ rtToken = auth.AccessToken
    /\ published.token = auth.AccessToken

\* a CSV with a line that csv.Reader.Read fails on
HasMalformedRow(body) ==
    /\ body.kind = "csv"
    /\ \E i \in DOMAIN body.rows : ~RecordOK(body.header, body.rows[i])

\* C19: a 200 reply with malformed data makes the call fail: Failures returns
\* an error when a line of the CSV is malformed, the calls that decode JSON
\* return an error for a body that is no JSON; the request is sent once.
C19_MalformedIsFatal ==
    \A p \in Procs :
        (/\ op[p] \in Calls
         /\ pc[p] = "done"
         /\ nSend[p] = 1
         /\ reply[p].kind = "http"
         /\ reply[p].status = 200)
        => (/\ (op[p] = "Failures" /\ HasMalformedRow(reply[p].body))
                 => result[p].err # NoErr
            /\ (op[p] # "Failures" /\ reply[p].body.kind = "text")
                 => result[p].err # NoErr)

\* C20: a call whose proactive refresh failed returns the error of that
\* refresh, and sends nothing.
C20_ProactiveRefreshError ==
    \A p \in Procs :
        (/\ op[p] \in Calls
         /\ expired[p]
         /\ nReq[p] = 1
         /\ nResp[p] = 1
         /\ rerr[p] # NoErr)
        => (/\ pc[p] = "done"
            /\ nSend[p] = 0
            /\ result[p] = [value |-> NULL, err |-> rerr[p]])

\* a 200 envelope whose errors hold 601 or 602 at some position
HasAuthCodeSomewhere(r) ==
    /\ r.kind = "http"
    /\ r.status = 200
    /\ r.body.kind = "envelope"
    /\ r.body.codesAs = "string"
    /\ \E i \in DOMAIN r.body.errors : r.body.errors[i].code \in {"601", "602"}

\* C21: a Get/Post/Delete whose first reply is a 200 envelope with 601 or 602
\* anywhere in its errors makes one refresh and, the refresh granted, sends
\* the request exactly once more.
C21_AuthCodeAtAnyPosition ==
    \A p \in Procs :
        (op[p] \in EnvelopedOps /\ pc[p] = "done" /\ HasAuthCodeSomewhere(first[p]))
        => (/\ nReq[p] = atSend[p][1] + 1
            /\ rerr[p] = NoErr => nSend[p] = 2)

\* C26: for the HTTP response of every send of a Get/Post/Delete, Client.do
\* returns a response or an error, never nil and nil, and checkToken never
\* reads the Errors of a nil response.
C26_DoNeverNilNil ==
    \A p \in Procs :
        (op[p] \in EnvelopedOps /\ nSend[p] >= 1 /\ reply[p].kind = "http")
        => (/\ ~(do(reply[p]).response = NULL /\ do(reply[p]).err = NoErr)
            /\ pc[p] # "crashed")

\* C24: a raw-path call sends its request exactly once and makes no refresh
\* after it, whatever the status and body of the reply, a 200 envelope with
\* 601 or 602 included; the API handles the very reply that came back, its
\* status and body untouched.
C24_RawUnexamined ==
    \A p \in Procs :
        (op[p] \in RawOps /\ nSend[p] >= 1 /\ reply[p].kind = "http")
        => (/\ pc[p] = "done"
            /\ nSend[p] = 1
            /\ <<nReq[p], nResp[p]>> = atSend[p]
            /\ result[p] = [value |-> Finish(op[p], reply[p]).value,
                            err |-> Finish(op[p], reply[p]).err])

\* List was answered "token expired" and returned after its one send
C24_Witness ==
    /\ op[Main] = "List"
    /\ pc[Main] = "done"
    /\ reply[Main] = Http(200, EnvErr(<<Expired602>>))
    /\ nSend[Main] = 1
    /\ nReq[Main] = 0
    /\ result[Main].err = ErrJSON

\* C25: when the refresh started by a 601/602 envelope fails, the call
\* returns nil and the refresh error, the request is not sent again, and the
\* store still holds the token the request was sent with and its expiry.
C25_ReactiveRefreshFails ==
    \A p \in Procs :
        (/\ op[p] \in EnvelopedOps
         /\ pc[p] = "done"
         /\ IsSoftAuthReply(first[p])
         /\ rerr[p] # NoErr)
        => (/\ result[p] = [value |-> NULL, err |-> rerr[p]]
            /\ nSend[p] = 1
            /\ nReq[p] = atSend[p][1] + 1
            /\ rtToken = sent[p].token
            /\ auth.AccessToken = sent[p].token
            /\ published.token = sent[p].token
            /\ tokenExpiresAt = published.at + auth.ExpiresIn)

C25_Witness ==
    /\ op[Main] = "Get"
    /\ pc[Main] = "done"
    /\ first[Main] = Http(200, EnvErr(<<Expired602>>))
    /\ result[Main] = [value |-> NULL, err |-> ErrTransport]
    /\ nSend[Main] = 1
    /\ issued = 1

\* the described object of a reply
DescribedObject(r) == r.body.result.items[1]

\* the fields a describe call returned
ReturnedFields(p) ==
    IF op[p] = "Describe" THEN result[p].value.object.Fields
    ELSE result[p].value.fields

\* C27: a describe call that succeeded returns the fields of the response in
\* their number and order, each with Searchable true exactly when its name is
\* in some group of searchableFields.
C27_SearchableMarked ==
    \A p \in Procs :
        (/\ op[p] \in {"Describe", "DescribeFields"}
         /\ pc[p] = "done"
         /\ result[p].err = NoErr
         /\ result[p].value # NULL)
        => LET obj == DescribedObject(reply[p])
               fs  == ReturnedFields(p)
           IN  /\ Len(fs) = Len(obj.Fields)
               /\ \A i \in DOMAIN fs :
                     /\ fs[i].Name = obj.Fields[i].Name
                     /\ fs[i].Searchable <=>
                          \E g \in DOMAIN obj.SearchableFields :
                             \E j \in DOMAIN obj.SearchableFields[g] :
                                obj.SearchableFields[g][j] = fs[i].Name

C27_Witness ==
    /\ op[Main] = "DescribeFields"
    /\ pc[Main] = "done"
    /\ reply[Main] = Http(200, EnvOK)
    /\ result[Main].err = NoErr
    /\ result[Main].value.fields =
         <<[Name |-> "email", Searchable |-> TRUE],
           [Name |-> "company", Searchable |-> FALSE],
           [Name |-> "id", Searchable |-> TRUE]>>

\* the steps of RefreshToken between Lock() and the deferred Unlock()
PublishSteps == {"rt_auth", "rt_token", "rt_expiry", "rt_unlock"}

ReadsStore(p) ==
    \/ StartEnveloped(p, "Get")
    \/ \E r \in CoreReplies : SendEnveloped(p, r)
    \/ StartGetTokenInfo(p)
    \/ GetTokenInfoExpires(p)

\* C23: every read of the shared token state is made under the lock, so no
\* goroutine reads it while another goroutine holds the lock to publish.
C23_ReadsUnderLock ==
    [][\A p \in Procs : ReadsStore(p) => authLock \in {NoLock, p}]_vars

====
